---- MODULE Spec2Model ----
(***************************************************************************)
(* Model discovery for the hosted providers (anthropic.rs, groq.rs,        *)
(* openai.rs): get_<provider>_models with its process-wide MODELS_CACHE,   *)
(* the static fallback list and clear_cache.                               *)
(*                                                                         *)
(* The three adapters are separate Rust modules, each with a MODELS_CACHE  *)
(* static of its own and no state in common.  A behaviour of this model    *)
(* follows one adapter; Init chooses which (variable provider).            *)
(*                                                                         *)
(* The module also holds the functions of summary_engine/models.rs (the    *)
(* model catalog, the paths, the prompt templates) and the commands of     *)
(* summary_engine/commands.rs on the global ModelManagerState.  Each part  *)
(* has a specification of its own: Spec and KeySpec for the adapters,      *)
(* FnSpec for models.rs, LifeSpec for the commands and LazyFairSpec for    *)
(* the lazily initializing commands under the scheduling of the runtime;   *)
(* the variables of the other parts stay at their initial values.  The     *)
(* ModelManager behind the commands is described by its operations'        *)
(* contracts.                                                              *)
(*                                                                         *)
(* Option<T> is written as a sequence: <<>> is None, <<v>> is Some(v).     *)
(* A String that the code inspects is kept as a TLA+ string in the state   *)
(* and read character by character through Chars.                          *)
(***************************************************************************)
EXTENDS Integers, Sequences, FiniteSets, TLC

VARIABLES
  provider,   \* the adapter this behaviour follows
  now,        \* the monotonic clock behind Instant::now(), in seconds
  cache,      \* MODELS_CACHE: Option<CacheEntry>
  calls,      \* one record per command slot: the invocation running in it
  maxStamp,   \* history: the largest fetched_at any cache update stored
  fetchedWith, \* history: the credential the entry in the cache was fetched with
  fnArgs,     \* the arguments the functions of models.rs are applied to
  fnResult,   \* the function applied last and the value it returned
  manager,    \* ModelManagerState: Option<ModelManager>, the instance by number
  lock,       \* the tokio Mutex around it: 0 when free, else the slot holding it
  cmds,       \* one record per lifecycle command slot
  tasks,      \* the download tasks registered, each in its manager's registry
  artifacts,  \* the model names whose final artifact file exists
  temps,      \* the model names whose temporary download file exists
  constructed, \* the number of ModelManager instances installed so far
  downloaded  \* history: the model names whose download has ever completed

catalogVars == <<provider, now, cache, calls, maxStamp, fetchedWith>>

fnVars == <<fnArgs, fnResult>>

lifeVars == <<manager, lock, cmds, tasks, artifacts, temps, constructed, downloaded>>

\* what the catalog's actions leave alone
notCatalogVars == <<fnVars, lifeVars>>

vars == <<catalogVars, fnVars, lifeVars>>

-----------------------------------------------------------------------------
(* Bounds of the model *)

\* Number of command slots: invocations that can be in flight together.
NumCallers == 2

\* The clock stops advancing once it has reached MaxNow.
MaxNow == 600

\* Number of command slots: lifecycle commands that can be in flight together.
NumCommands == 2

Callers == 1..NumCallers

Commands == 1..NumCommands

Providers == {"anthropic", "groq", "openai"}

None == <<>>

Some(v) == <<v>>

-----------------------------------------------------------------------------
(* Strings *)

Chars(s) ==
  CASE s = "claude-" -> <<"c", "l", "a", "u", "d", "e", "-">>
    [] s = "whisper" -> <<"w", "h", "i", "s", "p", "e", "r">>
    [] s = "embed" -> <<"e", "m", "b", "e", "d">>
    [] s = "guard" -> <<"g", "u", "a", "r", "d">>
    [] s = "tool-use" -> <<"t", "o", "o", "l", "-", "u", "s", "e">>
    [] s = "gpt-" -> <<"g", "p", "t", "-">>
    [] s = "o1-" -> <<"o", "1", "-">>
    [] s = "o3-" -> <<"o", "3", "-">>
    [] s = "o4-" -> <<"o", "4", "-">>
    [] s = "chatgpt-" -> <<"c", "h", "a", "t", "g", "p", "t", "-">>
    [] s = "embedding" -> <<"e", "m", "b", "e", "d", "d", "i", "n", "g">>
    [] s = "tts" -> <<"t", "t", "s">>
    [] s = "dall-e" -> <<"d", "a", "l", "l", "-", "e">>
    [] s = "babbage" -> <<"b", "a", "b", "b", "a", "g", "e">>
    [] s = "davinci" -> <<"d", "a", "v", "i", "n", "c", "i">>
    [] s = "instruct" -> <<"i", "n", "s", "t", "r", "u", "c", "t">>
    [] s = "realtime" -> <<"r", "e", "a", "l", "t", "i", "m", "e">>
    [] s = "audio" -> <<"a", "u", "d", "i", "o">>
    [] s = "claude-sonnet-4-5-20250929" -> <<"c", "l", "a", "u", "d", "e", "-", "s", "o", "n", "n", "e", "t", "-", "4", "-", "5", "-", "2", "0", "2", "5", "0", "9", "2", "9">>
    [] s = "claude-haiku-4-5-20251001" -> <<"c", "l", "a", "u", "d", "e", "-", "h", "a", "i", "k", "u", "-", "4", "-", "5", "-", "2", "0", "2", "5", "1", "0", "0", "1">>
    [] s = "claude-opus-4-1-20250805" -> <<"c", "l", "a", "u", "d", "e", "-", "o", "p", "u", "s", "-", "4", "-", "1", "-", "2", "0", "2", "5", "0", "8", "0", "5">>
    [] s = "claude-sonnet-4-20250514" -> <<"c", "l", "a", "u", "d", "e", "-", "s", "o", "n", "n", "e", "t", "-", "4", "-", "2", "0", "2", "5", "0", "5", "1", "4">>
    [] s = "Claude-Instant-1" -> <<"C", "l", "a", "u", "d", "e", "-", "I", "n", "s", "t", "a", "n", "t", "-", "1">>
    [] s = "claude" -> <<"c", "l", "a", "u", "d", "e">>
    [] s = "anthropic-embed-1" -> <<"a", "n", "t", "h", "r", "o", "p", "i", "c", "-", "e", "m", "b", "e", "d", "-", "1">>
    [] s = "llama-3.3-70b-versatile" -> <<"l", "l", "a", "m", "a", "-", "3", ".", "3", "-", "7", "0", "b", "-", "v", "e", "r", "s", "a", "t", "i", "l", "e">>
    [] s = "llama-3.1-8b-instant" -> <<"l", "l", "a", "m", "a", "-", "3", ".", "1", "-", "8", "b", "-", "i", "n", "s", "t", "a", "n", "t">>
    [] s = "Gemma2-9b-It" -> <<"G", "e", "m", "m", "a", "2", "-", "9", "b", "-", "I", "t">>
    [] s = "whisper-large-v3" -> <<"w", "h", "i", "s", "p", "e", "r", "-", "l", "a", "r", "g", "e", "-", "v", "3">>
    [] s = "Llama-Guard-3-8B" -> <<"L", "l", "a", "m", "a", "-", "G", "u", "a", "r", "d", "-", "3", "-", "8", "B">>
    [] s = "llama3-groq-70b-tool-use-preview" -> <<"l", "l", "a", "m", "a", "3", "-", "g", "r", "o", "q", "-", "7", "0", "b", "-", "t", "o", "o", "l", "-", "u", "s", "e", "-", "p", "r", "e", "v", "i", "e", "w">>
    [] s = "nomic-embed-text" -> <<"n", "o", "m", "i", "c", "-", "e", "m", "b", "e", "d", "-", "t", "e", "x", "t">>
    [] s = "gpt-4o" -> <<"g", "p", "t", "-", "4", "o">>
    [] s = "o3-mini" -> <<"o", "3", "-", "m", "i", "n", "i">>
    [] s = "chatgpt-4o-latest" -> <<"c", "h", "a", "t", "g", "p", "t", "-", "4", "o", "-", "l", "a", "t", "e", "s", "t">>
    [] s = "GPT-4-Turbo" -> <<"G", "P", "T", "-", "4", "-", "T", "u", "r", "b", "o">>
    [] s = "o1" -> <<"o", "1">>
    [] s = "text-embedding-3-small" -> <<"t", "e", "x", "t", "-", "e", "m", "b", "e", "d", "d", "i", "n", "g", "-", "3", "-", "s", "m", "a", "l", "l">>
    [] s = "gpt-4o-audio-preview" -> <<"g", "p", "t", "-", "4", "o", "-", "a", "u", "d", "i", "o", "-", "p", "r", "e", "v", "i", "e", "w">>
    [] s = "gpt-3.5-turbo-instruct" -> <<"g", "p", "t", "-", "3", ".", "5", "-", "t", "u", "r", "b", "o", "-", "i", "n", "s", "t", "r", "u", "c", "t">>
    [] s = "whisper-1" -> <<"w", "h", "i", "s", "p", "e", "r", "-", "1">>
    [] s = "gpt-4o-realtime-preview" -> <<"g", "p", "t", "-", "4", "o", "-", "r", "e", "a", "l", "t", "i", "m", "e", "-", "p", "r", "e", "v", "i", "e", "w">>
    [] s = "gpt-4o-mini-tts" -> <<"g", "p", "t", "-", "4", "o", "-", "m", "i", "n", "i", "-", "t", "t", "s">>
    [] s = "dall-e-3" -> <<"d", "a", "l", "l", "-", "e", "-", "3">>
    [] s = "davinci-002" -> <<"d", "a", "v", "i", "n", "c", "i", "-", "0", "0", "2">>
    [] s = "babbage-002" -> <<"b", "a", "b", "b", "a", "g", "e", "-", "0", "0", "2">>
    [] s = "GPT-4o-Mini-TTS" -> <<"G", "P", "T", "-", "4", "o", "-", "M", "i", "n", "i", "-", "T", "T", "S">>
    [] s = "<start_of_turn>user\n{system_prompt}<end_of_turn>\n<start_of_turn>user\n{user_prompt}<end_of_turn>\n<start_of_turn>model\n" -> <<"<", "s", "t", "a", "r", "t", "_", "o", "f", "_", "t", "u", "r", "n", ">", "u", "s", "e", "r", "\n", "{", "s", "y", "s", "t", "e", "m", "_", "p", "r", "o", "m", "p", "t", "}", "<", "e", "n", "d", "_", "o", "f", "_", "t", "u", "r", "n", ">", "\n", "<", "s", "t", "a", "r", "t", "_", "o", "f", "_", "t", "u", "r", "n", ">", "u", "s", "e", "r", "\n", "{", "u", "s", "e", "r", "_", "p", "r", "o", "m", "p", "t", "}", "<", "e", "n", "d", "_", "o", "f", "_", "t", "u", "r", "n", ">", "\n", "<", "s", "t", "a", "r", "t", "_", "o", "f", "_", "t", "u", "r", "n", ">", "m", "o", "d", "e", "l", "\n">>
    [] s = "<|im_start|>system\n{system_prompt}<|im_end|>\n<|im_start|>user\n{user_prompt}<|im_end|>\n<|im_start|>assistant\n" -> <<"<", "|", "i", "m", "_", "s", "t", "a", "r", "t", "|", ">", "s", "y", "s", "t", "e", "m", "\n", "{", "s", "y", "s", "t", "e", "m", "_", "p", "r", "o", "m", "p", "t", "}", "<", "|", "i", "m", "_", "e", "n", "d", "|", ">", "\n", "<", "|", "i", "m", "_", "s", "t", "a", "r", "t", "|", ">", "u", "s", "e", "r", "\n", "{", "u", "s", "e", "r", "_", "p", "r", "o", "m", "p", "t", "}", "<", "|", "i", "m", "_", "e", "n", "d", "|", ">", "\n", "<", "|", "i", "m", "_", "s", "t", "a", "r", "t", "|", ">", "a", "s", "s", "i", "s", "t", "a", "n", "t", "\n">>
    [] s = "<|begin_of_text|><|start_header_id|>system<|end_header_id|>\n{system_prompt}<|eot_id|><|start_header_id|>user<|end_header_id|>\n{user_prompt}<|eot_id|><|start_header_id|>assistant<|end_header_id|>\n" -> <<"<", "|", "b", "e", "g", "i", "n", "_", "o", "f", "_", "t", "e", "x", "t", "|", ">", "<", "|", "s", "t", "a", "r", "t", "_", "h", "e", "a", "d", "e", "r", "_", "i", "d", "|", ">", "s", "y", "s", "t", "e", "m", "<", "|", "e", "n", "d", "_", "h", "e", "a", "d", "e", "r", "_", "i", "d", "|", ">", "\n", "{", "s", "y", "s", "t", "e", "m", "_", "p", "r", "o", "m", "p", "t", "}", "<", "|", "e", "o", "t", "_", "i", "d", "|", ">", "<", "|", "s", "t", "a", "r", "t", "_", "h", "e", "a", "d", "e", "r", "_", "i", "d", "|", ">", "u", "s", "e", "r", "<", "|", "e", "n", "d", "_", "h", "e", "a", "d", "e", "r", "_", "i", "d", "|", ">", "\n", "{", "u", "s", "e", "r", "_", "p", "r", "o", "m", "p", "t", "}", "<", "|", "e", "o", "t", "_", "i", "d", "|", ">", "<", "|", "s", "t", "a", "r", "t", "_", "h", "e", "a", "d", "e", "r", "_", "i", "d", "|", ">", "a", "s", "s", "i", "s", "t", "a", "n", "t", "<", "|", "e", "n", "d", "_", "h", "e", "a", "d", "e", "r", "_", "i", "d", "|", ">", "\n">>
    [] s = "{system_prompt}" -> <<"{", "s", "y", "s", "t", "e", "m", "_", "p", "r", "o", "m", "p", "t", "}">>
    [] s = "{user_prompt}" -> <<"{", "u", "s", "e", "r", "_", "p", "r", "o", "m", "p", "t", "}">>
    [] s = "" -> <<>>
    [] s = "x" -> <<"x">>
    [] s = "sys" -> <<"s", "y", "s">>
    [] s = "Summarize this meeting." -> <<"S", "u", "m", "m", "a", "r", "i", "z", "e", " ", "t", "h", "i", "s", " ", "m", "e", "e", "t", "i", "n", "g", ".">>
    [] s = "Fill {user_prompt} in." -> <<"F", "i", "l", "l", " ", "{", "u", "s", "e", "r", "_", "p", "r", "o", "m", "p", "t", "}", " ", "i", "n", ".">>
    [] s = "models" -> <<"m", "o", "d", "e", "l", "s">>
    [] s = "summary" -> <<"s", "u", "m", "m", "a", "r", "y">>
    [] s = "gemma-3-1b-it-Q4_K_M.gguf" -> <<"g", "e", "m", "m", "a", "-", "3", "-", "1", "b", "-", "i", "t", "-", "Q", "4", "_", "K", "_", "M", ".", "g", "g", "u", "f">>
    [] s = "gemma-3-1b-it-q4_0.gguf" -> <<"g", "e", "m", "m", "a", "-", "3", "-", "1", "b", "-", "i", "t", "-", "q", "4", "_", "0", ".", "g", "g", "u", "f">>
    [] s = "/test/appdata" -> <<"/", "t", "e", "s", "t", "/", "a", "p", "p", "d", "a", "t", "a">>
    [] s = "/test/appdata/" -> <<"/", "t", "e", "s", "t", "/", "a", "p", "p", "d", "a", "t", "a", "/">>
    [] s = "data" -> <<"d", "a", "t", "a">>
    [] s = "/" -> <<"/">>

\* char::to_lowercase on the letters the identifiers use
LowerChar(ch) ==
  CASE ch = "A" -> "a" [] ch = "B" -> "b" [] ch = "C" -> "c" [] ch = "D" -> "d"
    [] ch = "E" -> "e" [] ch = "F" -> "f" [] ch = "G" -> "g" [] ch = "H" -> "h"
    [] ch = "I" -> "i" [] ch = "J" -> "j" [] ch = "K" -> "k" [] ch = "L" -> "l"
    [] ch = "M" -> "m" [] ch = "N" -> "n" [] ch = "O" -> "o" [] ch = "P" -> "p"
    [] ch = "Q" -> "q" [] ch = "R" -> "r" [] ch = "S" -> "s" [] ch = "T" -> "t"
    [] ch = "U" -> "u" [] ch = "V" -> "v" [] ch = "W" -> "w" [] ch = "X" -> "x"
    [] ch = "Y" -> "y" [] ch = "Z" -> "z" [] OTHER -> ch

\* str::to_lowercase
to_lowercase(cs) == [i \in 1..Len(cs) |-> LowerChar(cs[i])]

\* str::starts_with
starts_with(cs, pat) ==
  /\ Len(pat) <= Len(cs)
  /\ SubSeq(cs, 1, Len(pat)) = pat

\* str::contains
contains(cs, pat) ==
  \E i \in 1..(Len(cs) - Len(pat) + 1) : SubSeq(cs, i, i + Len(pat) - 1) = pat

IsWhitespace(ch) == ch \in {" ", "\t", "\n"}

RECURSIVE TrimStart(_)
TrimStart(cs) ==
  IF cs # <<>> /\ IsWhitespace(Head(cs)) THEN TrimStart(Tail(cs)) ELSE cs

RECURSIVE TrimEnd(_)
TrimEnd(cs) ==
  IF cs # <<>> /\ IsWhitespace(cs[Len(cs)])
  THEN TrimEnd(SubSeq(cs, 1, Len(cs) - 1))
  ELSE cs

\* str::trim
trim(cs) == TrimEnd(TrimStart(cs))

-----------------------------------------------------------------------------
(* The chat filters *)

anthropic_is_chat_model(model_id) ==
  LET id == to_lowercase(Chars(model_id))
  IN  starts_with(id, Chars("claude-"))

\* Mutant: the guard models are not excluded
groq_is_chat_model_NoGuard(model_id) ==
  LET id == to_lowercase(Chars(model_id))
  IN  /\ ~contains(id, Chars("whisper"))
      /\ ~contains(id, Chars("embed"))
      /\ ~contains(id, Chars("tool-use"))

groq_is_chat_model(model_id) ==
  LET id == to_lowercase(Chars(model_id))
  IN  /\ ~contains(id, Chars("whisper"))
      /\ ~contains(id, Chars("embed"))
      /\ ~contains(id, Chars("guard"))
      /\ ~contains(id, Chars("tool-use"))

openai_is_chat_model(model_id) ==
  LET id == to_lowercase(Chars(model_id))
  IN  /\ \/ starts_with(id, Chars("gpt-"))
         \/ starts_with(id, Chars("o1-"))
         \/ starts_with(id, Chars("o3-"))
         \/ starts_with(id, Chars("o4-"))
         \/ starts_with(id, Chars("chatgpt-"))
      /\ ~contains(id, Chars("embedding"))
      /\ ~contains(id, Chars("tts"))
      /\ ~contains(id, Chars("whisper"))
      /\ ~contains(id, Chars("dall-e"))
      /\ ~contains(id, Chars("babbage"))
      /\ ~contains(id, Chars("davinci"))
      /\ ~contains(id, Chars("instruct"))
      /\ ~contains(id, Chars("realtime"))
      /\ ~contains(id, Chars("audio"))

is_chat_model(p, model_id) ==
  CASE p = "anthropic" -> anthropic_is_chat_model(model_id)
    [] p = "groq"      -> groq_is_chat_model(model_id)
    [] p = "openai"    -> openai_is_chat_model(model_id)

-----------------------------------------------------------------------------
(* The fallback lists *)

CACHE_TTL_SECS == 300

anthropic_FALLBACK_MODELS ==
  << <<"claude-sonnet-4-5-20250929", "Claude 4.5 Sonnet">>,
     <<"claude-haiku-4-5-20251001", "Claude 4.5 Haiku">>,
     <<"claude-opus-4-1-20250805", "Claude 4.1 Opus">>,
     <<"claude-sonnet-4-20250514", "Claude 4 Sonnet">> >>

groq_FALLBACK_MODELS == << "llama-3.3-70b-versatile" >>

openai_FALLBACK_MODELS ==
  << "gpt-5", "gpt-5-mini", "gpt-4o", "gpt-4.1", "gpt-4-turbo", "gpt-3.5-turbo",
     "gpt-4o-2024-11-20", "gpt-4o-2024-08-06", "gpt-4o-mini-2024-07-18",
     "gpt-4.1-2025-04-14", "gpt-4.1-nano-2025-04-14", "gpt-4.1-mini-2025-04-14",
     "o4-mini-2025-04-16", "o3-2025-04-16", "o3-mini-2025-01-31", "o1-2024-12-17",
     "o1-mini-2024-09-12", "gpt-4-turbo-2024-04-09", "gpt-4-0125-Preview",
     "gpt-4-vision-preview", "gpt-4-1106-Preview", "gpt-3.5-turbo-0125",
     "gpt-3.5-turbo-1106" >>

get_fallback_models(p) ==
  CASE p = "anthropic" ->
         [i \in 1..Len(anthropic_FALLBACK_MODELS) |->
            [id |-> anthropic_FALLBACK_MODELS[i][1],
             display_name |-> Some(anthropic_FALLBACK_MODELS[i][2])]]
    [] p = "groq" ->
         [i \in 1..Len(groq_FALLBACK_MODELS) |->
            [id |-> groq_FALLBACK_MODELS[i], owned_by |-> None]]
    [] p = "openai" ->
         [i \in 1..Len(openai_FALLBACK_MODELS) |-> [id |-> openai_FALLBACK_MODELS[i]]]

-----------------------------------------------------------------------------
(* What the provider's endpoint can answer.  A JSON object is a record; a  *)
(* field the object does not carry is absent from the record's domain.     *)

ErrorBody == [type |-> "error", message |-> "invalid x-api-key"]

EmptyData == [data |-> << >>]

\* The body of the scenario: one chat model
anthropic_OneModel ==
  [data |-> << [id |-> "claude-sonnet-4-5-20250929", display_name |-> "Sonnet"] >>]

anthropic_Mixed ==
  [data |-> << [id |-> "Claude-Instant-1", display_name |-> "Claude Instant",
                created_at |-> "2023-03-14T00:00:00Z"],
               [id |-> "anthropic-embed-1"],
               [id |-> "claude-haiku-4-5-20251001"] >>]

anthropic_NoChat ==
  [data |-> << [id |-> "anthropic-embed-1"], [id |-> "claude"] >>]

\* An element without the id AnthropicApiModel requires
anthropic_MissingField == [data |-> << [display_name |-> "Sonnet"] >>]

anthropic_Bodies ==
  { anthropic_OneModel, anthropic_Mixed, EmptyData, anthropic_NoChat,
    anthropic_MissingField, ErrorBody }

\* One chat model, the one of the fallback list
groq_OneModel ==
  [data |-> << [id |-> "llama-3.3-70b-versatile", object |-> "model"] >>]

groq_Mixed ==
  [data |-> << [id |-> "llama-3.1-8b-instant", object |-> "model", owned_by |-> "Meta"],
               [id |-> "whisper-large-v3", object |-> "model", owned_by |-> "OpenAI"],
               [id |-> "Gemma2-9b-It", object |-> "model"] >>]

groq_NoChat ==
  [data |-> << [id |-> "whisper-large-v3", object |-> "model"],
               [id |-> "Llama-Guard-3-8B", object |-> "model"],
               [id |-> "llama3-groq-70b-tool-use-preview", object |-> "model"],
               [id |-> "nomic-embed-text", object |-> "model"] >>]

\* An element without the object GroqApiModel requires
groq_MissingField ==
  [data |-> << [id |-> "llama-3.1-8b-instant", owned_by |-> "Meta"] >>]

groq_Bodies ==
  { groq_OneModel, groq_Mixed, EmptyData, groq_NoChat, groq_MissingField, ErrorBody }

openai_OneModel ==
  [data |-> << [id |-> "chatgpt-4o-latest", object |-> "model", owned_by |-> "system"],
               [id |-> "o1", object |-> "model", owned_by |-> "system"] >>]

openai_Mixed ==
  [data |-> << [id |-> "gpt-4o", object |-> "model", owned_by |-> "system"],
               [id |-> "text-embedding-3-small", object |-> "model", owned_by |-> "system"],
               [id |-> "GPT-4-Turbo", object |-> "model", owned_by |-> "system"],
               [id |-> "gpt-4o-audio-preview", object |-> "model", owned_by |-> "system"],
               [id |-> "o3-mini", object |-> "model", owned_by |-> "system"] >>]

openai_NoChat ==
  [data |-> << [id |-> "whisper-1", object |-> "model", owned_by |-> "openai-internal"],
               [id |-> "gpt-3.5-turbo-instruct", object |-> "model", owned_by |-> "system"],
               [id |-> "gpt-4o-realtime-preview", object |-> "model", owned_by |-> "system"],
               [id |-> "GPT-4o-Mini-TTS", object |-> "model", owned_by |-> "system"],
               [id |-> "dall-e-3", object |-> "model", owned_by |-> "system"],
               [id |-> "davinci-002", object |-> "model", owned_by |-> "system"],
               [id |-> "babbage-002", object |-> "model", owned_by |-> "system"],
               [id |-> "o1", object |-> "model", owned_by |-> "system"] >>]

\* An element without the owned_by OpenAIApiModel requires
openai_MissingField == [data |-> << [id |-> "gpt-4o", object |-> "model"] >>]

openai_Bodies ==
  { openai_OneModel, openai_Mixed, EmptyData, openai_NoChat, openai_MissingField,
    ErrorBody }

Bodies(p) ==
  CASE p = "anthropic" -> anthropic_Bodies
    [] p = "groq"      -> groq_Bodies
    [] p = "openai"    -> openai_Bodies

\* Statuses the endpoint answers with besides 200
ErrorStatuses == {401}

\* The outcomes of send(): an Err (connection failure, the 5 s timeout) or a
\* response with a status and a body.
Responses(p) ==
  { [kind |-> "error"] }
    \cup { [kind |-> "http", status |-> s, body |-> ErrorBody] : s \in ErrorStatuses }
    \cup { [kind |-> "http", status |-> 200, body |-> b] : b \in Bodies(p) }

\* The credentials a caller passes
ApiKeys ==
  { None, Some(<< >>), Some(<<" ", "\t">>), Some(<<" ", "a", " ">>) }

-----------------------------------------------------------------------------
(* The steps of get_<provider>_models *)

\* Mutant: the credential is tested without trim()
NoApiKey_NoTrim(api_key) == api_key = None \/ api_key[1] = << >>

\* `Some(key) if !key.trim().is_empty()` does not match
NoApiKey(api_key) == api_key = None \/ trim(api_key[1]) = << >>

\* Mutant: the TTL is read as minutes
Fresh_Minutes(entry, t) == t - entry.fetched_at < CACHE_TTL_SECS \div 60

\* Mutant: <= instead of <
Fresh_Inclusive(entry, t) == t - entry.fetched_at <= CACHE_TTL_SECS

\* Mutant: no entry is ever fresh
Fresh_Never(entry, t) == FALSE

\* entry.fetched_at.elapsed() < Duration::from_secs(CACHE_TTL_SECS)
Fresh(entry, t) == t - entry.fetched_at < CACHE_TTL_SECS

\* StatusCode::is_success
is_success(status) == 200 <= status /\ status <= 299

\* The fields serde requires of each element of data
RequiredFields(p) ==
  CASE p = "anthropic" -> {"id"}
    [] p = "groq"      -> {"id", "object"}
    [] p = "openai"    -> {"id", "object", "owned_by"}

\* Mutant: every field but id is optional
ParseOk_IdOnly(p, body) ==
  /\ "data" \in DOMAIN body
  /\ \A i \in 1..Len(body.data) : "id" \in DOMAIN body.data[i]

\* response.json() is Ok
ParseOk(p, body) ==
  /\ "data" \in DOMAIN body
  /\ \A i \in 1..Len(body.data) : RequiredFields(p) \subseteq DOMAIN body.data[i]

\* An Option<String> field of a parsed element
OptField(m, f) == IF f \in DOMAIN m THEN Some(m[f]) ELSE None

\* The map closure: the API element as the model returned to the frontend
ToModel(p, m) ==
  CASE p = "anthropic" -> [id |-> m.id, display_name |-> OptField(m, "display_name")]
    [] p = "groq"      -> [id |-> m.id, owned_by |-> OptField(m, "owned_by")]
    [] p = "openai"    -> [id |-> m.id]

\* Mutant: the filter is left out
FilterChat_Unfiltered(p, data) == [i \in 1..Len(data) |-> ToModel(p, data[i])]

\* data.into_iter().filter(|m| is_chat_model(&m.id)).map(..).collect()
FilterChat(p, data) ==
  LET kept == SelectSeq(data, LAMBDA m : is_chat_model(p, m.id))
  IN  [i \in 1..Len(kept) |-> ToModel(p, kept[i])]

\* Mutant: the empty check is left out
is_empty_Never(models) == FALSE

\* models.is_empty()
is_empty(models) == Len(models) = 0

\* The filtered list of every body that parses, computed once
Filtered ==
  [p \in Providers |->
     [b \in {x \in Bodies(p) : ParseOk(p, x)} |-> FilterChat(p, b.data)]]

\* CacheEntry { models: models.clone(), fetched_at: Instant::now() }
CacheEntry(models, t) == [models |-> models, fetched_at |-> t]

\* Mutant: an entry already there is updated field by field and keeps its stamp
CacheUpdate_KeepStamp(old, models, t) ==
  IF old # None
    THEN Some([models |-> models, fetched_at |-> old[1].fetched_at])
    ELSE Some(CacheEntry(models, t))

\* *cache = Some(CacheEntry {..}) under the write guard
CacheUpdate(old, models, t) == Some(CacheEntry(models, t))

\* Mutant: the entry is left in place
CacheClear_Keep(old) == old

\* *cache = None under the write guard
CacheClear(old) == None

\* MODELS_CACHE.read() / .write() is Err only once a thread has panicked while
\* holding the write guard.  The guarded regions are an assignment, a clone and
\* a log line: none panics, so the lock is never poisoned.
LockPoisoned == FALSE

Ok(models) == [ok |-> TRUE, models |-> models]

Err(e) == [ok |-> FALSE, err |-> e]

Idle ==
  [pc |-> "idle", op |-> "none", arg |-> None, api_key |-> None, resp |-> None,
   models |-> << >>, result |-> None, gets |-> 0, cleared |-> FALSE]

Finish(call, result) ==
  [call EXCEPT !.pc = "done", !.result = Some(result), !.cleared = FALSE]

TypeOK ==
  /\ provider \in Providers
  /\ now \in 0..MaxNow
  /\ cache = None \/ (Len(cache) = 1 /\ cache[1].fetched_at \in 0..MaxNow)
  /\ \A c \in Callers :
       /\ calls[c].pc \in {"idle", "await", "write", "done"}
       /\ calls[c].op \in {"none", "get_models", "clear_cache"}
       /\ calls[c].gets \in Nat
       /\ calls[c].cleared \in BOOLEAN

IdleCommand ==
  [pc |-> "idle", op |-> "none", model_name |-> "", result |-> None,
   events |-> << >>, emitted |-> FALSE, rivals |-> {}, overlap |-> FALSE]

\* The state before any lifecycle command.
LifeIdle ==
  /\ manager = None
  /\ lock = 0
  /\ cmds = [c \in Commands |-> IdleCommand]
  /\ tasks = {}
  /\ artifacts = {}
  /\ temps = {}
  /\ constructed = 0
  /\ downloaded = {}

\* No function of models.rs has been applied.
NoArgs ==
  [template_name |-> "", system_prompt |-> "", user_prompt |-> "",
   name |-> "", app_data_dir |-> ""]

NoResult == [fn |-> "none", value |-> None]

FnIdle ==
  /\ fnArgs = NoArgs
  /\ fnResult = NoResult

\* The catalog before any call.
CatalogIdle ==
  /\ now = 0
  /\ cache = None
  /\ calls = [c \in Callers |-> Idle]
  /\ maxStamp = -1
  /\ fetchedWith = None

Init ==
  /\ FnIdle
  /\ LifeIdle
  /\ provider \in Providers
  /\ now = 0
  /\ cache = None
  /\ calls = [c \in Callers |-> Idle]
  /\ maxStamp = -1
  /\ fetchedWith = None

\* get_<provider>_models from its entry to the first await: the credential
\* check, the cache check under the read guard, and the GET handed to send().
GetModelsCall(c, key) ==
  /\ calls[c].pc = "idle"
  /\ LET call == [Idle EXCEPT !.op = "get_models", !.arg = key]
     IN  calls' = [calls EXCEPT ![c] =
           IF NoApiKey(key)
             THEN Finish(call, Ok(get_fallback_models(provider)))
           ELSE IF LockPoisoned
             THEN Finish([call EXCEPT !.api_key = Some(trim(key[1]))], Err("poisoned lock"))
           ELSE IF cache # None /\ Fresh(cache[1], now)
             THEN Finish([call EXCEPT !.api_key = Some(trim(key[1]))], Ok(cache[1].models))
           ELSE [call EXCEPT !.api_key = Some(trim(key[1])), !.pc = "await", !.gets = @ + 1]]
  /\ UNCHANGED <<provider, now, cache, maxStamp, fetchedWith, notCatalogVars>>

\* send().await and response.json().await complete: the status check, the
\* parse, the chat filter and the empty check.
GetModelsResponse(c, r) ==
  /\ calls[c].pc = "await"
  /\ LET call == [calls[c] EXCEPT !.resp = Some(r)]
         fallback == Finish(call, Ok(get_fallback_models(provider)))
     IN  calls' = [calls EXCEPT ![c] =
           IF r.kind = "error" THEN fallback
           ELSE IF ~is_success(r.status) THEN fallback
           ELSE IF ~ParseOk(provider, r.body) THEN fallback
           ELSE LET models == Filtered[provider][r.body]
                IN  IF is_empty(models) THEN fallback
                    ELSE [call EXCEPT !.pc = "write", !.models = models]]
  /\ UNCHANGED <<provider, now, cache, maxStamp, fetchedWith, notCatalogVars>>

\* The cache update under the write guard, and the return of the models.
GetModelsWrite(c) ==
  /\ calls[c].pc = "write"
  /\ IF LockPoisoned
       THEN /\ calls' = [calls EXCEPT ![c] = Finish(@, Err("poisoned lock"))]
            /\ UNCHANGED <<cache, maxStamp, fetchedWith, notCatalogVars>>
       ELSE /\ cache' = CacheUpdate(cache, calls[c].models, now)
            /\ calls' = [calls EXCEPT ![c] = Finish(@, Ok(calls[c].models))]
            /\ maxStamp' = IF cache'[1].fetched_at > maxStamp
                            THEN cache'[1].fetched_at ELSE maxStamp
            /\ fetchedWith' = calls[c].api_key
  /\ UNCHANGED <<provider, now, notCatalogVars>>

\* The call has sent its GET and has not yet written the cache or returned.
FetchInFlight(call) == call.pc \in {"await", "write"}

\* clear_cache. The field cleared is history: it marks the fetches that were
\* in flight when the cache was cleared.
ClearCache(c) ==
  /\ calls[c].pc = "idle"
  /\ calls' = [d \in Callers |->
                IF d = c THEN [Idle EXCEPT !.pc = "done", !.op = "clear_cache"]
                ELSE [calls[d] EXCEPT !.cleared = FetchInFlight(calls[d]) \/ @]]
  /\ cache' = IF LockPoisoned THEN cache ELSE CacheClear(cache)
  /\ fetchedWith' = IF cache' = None THEN None ELSE fetchedWith
  /\ UNCHANGED <<provider, now, maxStamp, notCatalogVars>>

\* The caller has its result; the slot is free for the next command.
Return(c) ==
  /\ calls[c].pc = "done"
  /\ calls' = [calls EXCEPT ![c] = Idle]
  /\ UNCHANGED <<provider, now, cache, maxStamp, fetchedWith, notCatalogVars>>

\* Time passes.
ClockSteps == {CACHE_TTL_SECS - 1, CACHE_TTL_SECS}

\* Mutant: a wall clock, which can be set back, in place of Instant
Tick_WallClock(d) ==
  /\ now' \in {now + d, now - d} \cap (0..MaxNow)
  /\ UNCHANGED <<provider, cache, calls, maxStamp, fetchedWith, notCatalogVars>>

Tick(d) ==
  /\ now + d <= MaxNow
  /\ now' = now + d
  /\ UNCHANGED <<provider, cache, calls, maxStamp, fetchedWith, notCatalogVars>>

Next ==
  \/ \E c \in Callers, key \in ApiKeys : GetModelsCall(c, key)
  \/ \E c \in Callers : \E r \in Responses(provider) : GetModelsResponse(c, r)
  \/ \E c \in Callers : GetModelsWrite(c)
  \/ \E c \in Callers : ClearCache(c)
  \/ \E c \in Callers : Return(c)
  \/ \E d \in ClockSteps : Tick(d)

Spec == Init /\ [][Next]_vars

-----------------------------------------------------------------------------
(* The catalog called with two different credentials *)

\* Two credentials that differ after trimming.
TwoApiKeys == { Some(<<"a">>), Some(<<" ", "b">>) }

\* One fetch that fills the cache and one that fails.
TwoResponses(p) ==
  { [kind |-> "error"],
    [kind |-> "http", status |-> 200,
     body |-> CASE p = "anthropic" -> anthropic_OneModel
                [] p = "groq"      -> groq_OneModel
                [] p = "openai"    -> openai_OneModel] }

KeyNext ==
  \/ \E c \in Callers, key \in TwoApiKeys : GetModelsCall(c, key)
  \/ \E c \in Callers : \E r \in TwoResponses(provider) : GetModelsResponse(c, r)
  \/ \E c \in Callers : GetModelsWrite(c)
  \/ \E c \in Callers : ClearCache(c)
  \/ \E c \in Callers : Return(c)
  \/ \E d \in ClockSteps : Tick(d)

KeySpec == Init /\ [][KeyNext]_vars

-----------------------------------------------------------------------------
(* models.rs: the model catalog, the paths and the prompt templates *)

\* what the functions of models.rs leave alone
notFnVars == <<catalogVars, lifeVars>>

OkValue(v) == [ok |-> TRUE, value |-> v]

\* get_available_models: f32 literals are kept as written
get_available_models ==
  << [name |-> "gemma3:1b",
      display_name |-> "Gemma 3 1B (Fast)",
      gguf_file |-> "gemma-3-1b-it-Q4_K_M.gguf",
      template |-> "gemma3",
      size_mb |-> 806,
      context_size |-> 8192,
      layer_count |-> 26,
      sampling |-> [temperature |-> "1.0", top_k |-> 64, top_p |-> "0.95",
                    stop_tokens |-> << "<end_of_turn>" >>]] >>

\* Iterator::find: the first element the predicate holds for
get_model_by_name(name) ==
  LET models == get_available_models
      found == { i \in 1..Len(models) : models[i].name = name }
  IN  IF found = {} THEN None
      ELSE Some(models[CHOOSE i \in found : \A j \in found : i <= j])

\* Path::is_absolute on the paths used here
is_absolute(path) == path # << >> /\ Head(path) = "/"

\* PathBuf::join: an absolute component replaces the path, otherwise it is
\* appended after a separator unless the path is empty or ends in one
join(base, component) ==
  IF is_absolute(component) THEN component
  ELSE IF base = << >> \/ base[Len(base)] = "/" THEN base \o component
  ELSE base \o <<"/">> \o component

get_models_directory(app_data_dir) ==
  join(join(app_data_dir, Chars("models")), Chars("summary"))

get_model_path(app_data_dir, model_name) ==
  LET model == get_model_by_name(model_name)
  IN  IF model = None THEN Err("Unknown model")
      ELSE OkValue(join(get_models_directory(app_data_dir), Chars(model[1].gguf_file)))

GEMMA3_TEMPLATE ==
  "<start_of_turn>user\n{system_prompt}<end_of_turn>\n<start_of_turn>user\n{user_prompt}<end_of_turn>\n<start_of_turn>model\n"

CHATML_TEMPLATE ==
  "<|im_start|>system\n{system_prompt}<|im_end|>\n<|im_start|>user\n{user_prompt}<|im_end|>\n<|im_start|>assistant\n"

LLAMA3_TEMPLATE ==
  "<|begin_of_text|><|start_header_id|>system<|end_header_id|>\n{system_prompt}<|eot_id|><|start_header_id|>user<|end_header_id|>\n{user_prompt}<|eot_id|><|start_header_id|>assistant<|end_header_id|>\n"

\* str::replace: every non-overlapping match of a non-empty pattern, from the left
\* str::find: the first place pat occurs in cs, 0 when it does not
IndexOf(cs, pat) ==
  LET at == { i \in 1..(Len(cs) - Len(pat) + 1) : SubSeq(cs, i, i + Len(pat) - 1) = pat }
  IN  IF at = {} THEN 0 ELSE CHOOSE i \in at : \A j \in at : i <= j

RECURSIVE replace(_, _, _)
replace(cs, from, to) ==
  LET at == IndexOf(cs, from)
  IN  IF at = 0 THEN cs
      ELSE SubSeq(cs, 1, at - 1) \o to
             \o replace(SubSeq(cs, at + Len(from), Len(cs)), from, to)

format_prompt(template_name, system_prompt, user_prompt) ==
  IF template_name \notin {"gemma3", "chatml", "llama3"}
    THEN Err("Unknown template")
  ELSE LET template == CASE template_name = "gemma3" -> GEMMA3_TEMPLATE
                         [] template_name = "chatml" -> CHATML_TEMPLATE
                         [] template_name = "llama3" -> LLAMA3_TEMPLATE
       IN  OkValue(replace(replace(Chars(template), Chars("{system_prompt}"),
                                   Chars(system_prompt)),
                           Chars("{user_prompt}"), Chars(user_prompt)))

\* The arguments the functions are applied to.
TemplateNames == {"gemma3", "chatml", "llama3", "Gemma3", "invalid"}

Prompts ==
  {"", "x", "sys", "Summarize this meeting.", "Fill {user_prompt} in.",
   "{user_prompt}", "{system_prompt}"}

ModelNames == {"gemma3:1b", "Gemma3:1B", "qwen2.5:1.5b"}

AppDataDirs == {"/test/appdata", "/test/appdata/", "data", ""}

FnInit ==
  /\ provider = "anthropic"
  /\ CatalogIdle
  /\ LifeIdle
  /\ fnArgs \in [template_name : TemplateNames, system_prompt : Prompts,
                 user_prompt : Prompts, name : ModelNames,
                 app_data_dir : AppDataDirs]
  /\ fnResult = NoResult

Applied(fn, value) ==
  /\ fnResult' = [fn |-> fn, value |-> Some(value)]
  /\ UNCHANGED <<fnArgs, notFnVars>>

FormatPrompt ==
  Applied("format_prompt",
          format_prompt(fnArgs.template_name, fnArgs.system_prompt, fnArgs.user_prompt))

GetModelByName == Applied("get_model_by_name", get_model_by_name(fnArgs.name))

GetModelPath ==
  Applied("get_model_path", get_model_path(Chars(fnArgs.app_data_dir), fnArgs.name))

GetModelsDirectory ==
  Applied("get_models_directory", get_models_directory(Chars(fnArgs.app_data_dir)))

FnNext ==
  \/ FormatPrompt
  \/ GetModelByName
  \/ GetModelPath
  \/ GetModelsDirectory

FnSpec == FnInit /\ [][FnNext]_vars

-----------------------------------------------------------------------------
(* commands.rs: the model manager state and the commands on it *)

\* The model names a command is invoked with: the cataloged one and another.
LifeNames == {"gemma3:1b", "qwen2.5:1.5b"}

\* Mutant: cancel_download initializes on demand as well
LazyOps_WithCancel ==
  {"list_models", "get_model_info", "download_model", "is_model_ready",
   "cancel_download"}

\* The commands that run init_model_manager when the state holds no manager.
LazyOps == {"list_models", "get_model_info", "download_model", "is_model_ready"}

\* The commands that only look the manager up.
PlainOps ==
  {"cancel_download", "delete_model", "get_models_directory", "open_models_folder"}

\* The commands that take a model_name.
NamedOps ==
  {"get_model_info", "download_model", "is_model_ready", "cancel_download",
   "delete_model"}

\* The names each command is invoked with: the name outside the catalog goes
\* to the commands that look the name up in the catalog.
NamesFor(op) ==
  IF op \notin NamedOps THEN {""}
  ELSE IF op \in {"get_model_info", "download_model", "delete_model"} THEN LifeNames
  ELSE {"gemma3:1b"}

Cataloged(name) == get_model_by_name(name) # None

\* The download registry of one manager holds a task for the name.
Registered(mgr, name) == \E t \in tasks : t.mgr = mgr /\ t.name = name

\* is_model_ready: the final artifact exists
is_model_ready(name) == name \in artifacts

\* The status list_models and get_model_info compute for a cataloged name.
ModelStatus(mgr, name) ==
  IF Registered(mgr, name) THEN "Downloading"
  ELSE IF is_model_ready(name) THEN "Ready"
  ELSE "NotDownloaded"

list_models(mgr) ==
  [i \in 1..Len(get_available_models) |->
     [name |-> get_available_models[i].name,
      status |-> ModelStatus(mgr, get_available_models[i].name)]]

get_model_info(mgr, name) ==
  IF Cataloged(name) THEN Some([name |-> name, status |-> ModelStatus(mgr, name)])
  ELSE None

\* The percentage the manager reports between the start and the completion.
ChunkProgress == {50}

\* Mutant: every event says "downloading"
progress_callback_Downloading(model_name, progress) ==
  [model |-> model_name, progress |-> progress, status |-> "downloading"]

\* The event the progress callback emits
progress_callback(model_name, progress) ==
  [model |-> model_name, progress |-> progress,
   status |-> IF progress = 100 THEN "completed" ELSE "downloading"]

\* The event the command emits after download_model has returned Ok
completion_event(model_name) ==
  [model |-> model_name, progress |-> 100, status |-> "completed"]

\* Mutant: the guard is dropped before download_model is awaited
LockDuringDownload_Released(c) == 0

\* manager_lock is alive across download_model(..).await: the slot keeps the lock
LockDuringDownload(c) == c

Done(cmd, result) == [cmd EXCEPT !.pc = "done", !.result = Some(result)]

\* Mutant: the completion event is emitted whatever download_model returned
AfterDownload_AlwaysEmits(cmd, result) ==
  Done([cmd EXCEPT !.events = Append(@, completion_event(cmd.model_name)),
                   !.emitted = TRUE], result)

\* download_model(..).await.map_err(..)?, the emit, Ok(()): an error returns
\* at the ?, before the command's own event is emitted.  The field emitted
\* is history: the emit of the command itself has run.
AfterDownload(cmd, result) ==
  IF result.ok
    THEN Done([cmd EXCEPT !.events = Append(@, completion_event(cmd.model_name)),
                          !.emitted = TRUE], result)
    ELSE Done(cmd, result)

\* Mutant: the guard of the check is still held when init_model_manager runs
GuardAfterCheck_Held(c) == c

\* drop(manager_lock): the guard of the is_none check is released before
\* init_model_manager is called
GuardAfterCheck(c) == 0

\* What opening the models folder can come to: the directory is there or is
\* created and the file explorer is spawned, or one of the two fails.
FolderOutcomes == {"opened", "create_failed", "spawn_failed"}

\* What download_model does with a model that is downloaded already.
ReadyOutcomes == {"fail", "return"}

\* What the environment decides when the operation of a command runs.
OutcomesOf(op) ==
  CASE op = "download_model" -> ReadyOutcomes
    [] op = "open_models_folder" -> FolderOutcomes
    [] OTHER -> {"none"}

LifeInit ==
  /\ provider = "anthropic"
  /\ CatalogIdle
  /\ FnIdle
  /\ LifeIdle

\* what the lifecycle commands leave alone
notLifeVars == <<catalogVars, fnVars>>

Unit == "()"

\* The slots whose command has been invoked and has not finished.
InFlight == { d \in Commands : cmds[d].pc \notin {"idle", "done"} }

\* The slots whose download is streaming.
Streaming == { d \in Commands : cmds[d].pc = "stream" }

\* A command is invoked: a lazily initializing command first looks whether
\* the state holds a manager, the others go straight for the lock.
Invoke(c, op, name) ==
  /\ cmds[c].pc = "idle"
  /\ name \in NamesFor(op)
  /\ cmds' = [cmds EXCEPT ![c] =
       [IdleCommand EXCEPT
          !.pc = IF op \in LazyOps THEN "check" ELSE "lock",
          !.op = op,
          !.model_name = name,
          !.rivals = IF op = "download_model" /\ ~is_model_ready(name)
                       THEN { d \in InFlight \ {c} :
                                /\ cmds[d].op = "download_model"
                                /\ cmds[d].model_name = name }
                       ELSE {},
          !.overlap = /\ op = "cancel_download"
                      /\ \E d \in Streaming \ {c} : cmds[d].model_name = name]]
  /\ UNCHANGED <<manager, lock, tasks, artifacts, temps, constructed, downloaded,
                 notLifeVars>>

\* The guard of a command that has ended goes out of scope.
Released(c) == IF lock = c THEN 0 ELSE lock

\* The first block of a lazily initializing command: lock, is_none, and the
\* guard is released, by drop when there is no manager and at the end of the
\* block when there is one.
CheckInit(c) ==
  /\ cmds[c].pc = "check"
  /\ lock = 0
  /\ IF manager # None
       THEN /\ cmds' = [cmds EXCEPT ![c].pc = "lock"]
            /\ lock' = 0
       ELSE /\ cmds' = [cmds EXCEPT ![c].pc = "init"]
            /\ lock' = GuardAfterCheck(c)
  /\ UNCHANGED <<manager, tasks, artifacts, temps, constructed, downloaded,
                 notLifeVars>>

\* init_model_manager up to its lock: a manager is built and initialized,
\* which can fail; the command then returns the error.
InitManager(c, ok) ==
  /\ cmds[c].pc = "init"
  /\ IF ok
       THEN /\ cmds' = [cmds EXCEPT ![c].pc = "install"]
            /\ lock' = lock
       ELSE /\ cmds' = [cmds EXCEPT ![c] =
                 Done(@, Err("Failed to initialize model manager"))]
            /\ lock' = Released(c)
  /\ UNCHANGED <<manager, tasks, artifacts, temps, constructed, downloaded,
                 notLifeVars>>

\* init_model_manager from the lock on: the new manager replaces whatever the
\* state holds.
Install(c) ==
  /\ cmds[c].pc = "install"
  /\ lock = 0
  /\ manager' = Some(constructed + 1)
  /\ constructed' = constructed + 1
  /\ cmds' = [cmds EXCEPT ![c].pc = "lock"]
  /\ UNCHANGED <<lock, tasks, artifacts, temps, downloaded, notLifeVars>>

\* What is left as it is by an operation that only answers.
Answer(c, result) ==
  [cmd |-> Done(cmds[c], result), tasks |-> tasks, artifacts |-> artifacts,
   temps |-> temps, lock |-> 0]

\* download_model has returned without streaming: the command goes on from
\* the await.
Returned(c, result) ==
  [Answer(c, result) EXCEPT !.cmd = AfterDownload(cmds[c], result)]

\* open_models_folder, once it has the manager
OpenModelsFolder(c, folder) ==
  CASE folder = "opened" -> Answer(c, OkValue(Unit))
    [] folder = "create_failed" -> Answer(c, Err("Failed to create models directory"))
    [] folder = "spawn_failed" -> Answer(c, Err("Failed to open folder"))

\* download_model up to the registration of the task
StartDownload(c, mgr, name, whenReady) ==
  IF ~Cataloged(name) THEN Returned(c, Err("UnknownModel"))
  ELSE IF is_model_ready(name)
    THEN IF whenReady = "fail" THEN Returned(c, Err("AlreadyReady"))
         ELSE Returned(c, OkValue(Unit))
  ELSE IF Registered(mgr, name) THEN Returned(c, Err("AlreadyDownloading"))
  ELSE [cmd |-> [cmds[c] EXCEPT !.pc = "stream",
                                !.events = << progress_callback(name, 0) >>],
        tasks |-> tasks \cup { [mgr |-> mgr, name |-> name, owner |-> c,
                                progress |-> 0, cancelled |-> FALSE] },
        artifacts |-> artifacts,
        temps |-> temps \cup {name},
        lock |-> LockDuringDownload(c)]

\* cancel_download
CancelDownload(c, mgr, name) ==
  IF ~Registered(mgr, name) THEN Answer(c, Err("NotDownloading"))
  ELSE [Answer(c, OkValue(Unit)) EXCEPT
          !.tasks = { IF t.mgr = mgr /\ t.name = name
                        THEN [t EXCEPT !.cancelled = TRUE] ELSE t : t \in tasks }]

\* delete_model
DeleteModel(c, mgr, name) ==
  IF ~Cataloged(name) THEN Answer(c, Err("UnknownModel"))
  ELSE IF Registered(mgr, name) THEN Answer(c, Err("InUse"))
  ELSE [Answer(c, OkValue(Unit)) EXCEPT !.artifacts = artifacts \ {name}]

\* The second block of a command, under the lock: the manager is looked up
\* and the operation runs on it.
Run(c, outcome) ==
  /\ cmds[c].pc = "lock"
  /\ lock = 0
  /\ LET op == cmds[c].op
         name == cmds[c].model_name
         after ==
           IF manager = None THEN Answer(c, Err("Model manager not initialized"))
           ELSE CASE op = "list_models" -> Answer(c, OkValue(list_models(manager[1])))
                  [] op = "get_model_info" ->
                       Answer(c, OkValue(get_model_info(manager[1], name)))
                  [] op = "is_model_ready" -> Answer(c, OkValue(is_model_ready(name)))
                  [] op = "get_models_directory" -> Answer(c, OkValue("models/summary"))
                  [] op = "download_model" ->
                       StartDownload(c, manager[1], name, outcome)
                  [] op = "cancel_download" -> CancelDownload(c, manager[1], name)
                  [] op = "delete_model" -> DeleteModel(c, manager[1], name)
                  [] op = "open_models_folder" -> OpenModelsFolder(c, outcome)
     IN  /\ cmds' = [cmds EXCEPT ![c] = after.cmd]
         /\ tasks' = after.tasks
         /\ artifacts' = after.artifacts
         /\ temps' = after.temps
         /\ lock' = after.lock
  /\ UNCHANGED <<manager, constructed, downloaded, notLifeVars>>

\* The task slot c's download registered.
TaskOf(c) == CHOOSE t \in tasks : t.owner = c

\* The streaming loop has seen the cancellation: the temporary file is
\* removed and the task deregisters.
Unwind(c) ==
  /\ tasks' = tasks \ {TaskOf(c)}
  /\ temps' = temps \ {TaskOf(c).name}
  /\ cmds' = [cmds EXCEPT ![c] = AfterDownload(@, Err("Cancelled"))]
  /\ lock' = Released(c)
  /\ UNCHANGED <<artifacts, downloaded>>

\* A chunk arrives: the progress callback is invoked with the new percentage.
StreamChunk(c, p) ==
  /\ cmds[c].pc = "stream"
  /\ p > TaskOf(c).progress
  /\ IF TaskOf(c).cancelled
       THEN Unwind(c)
       ELSE /\ tasks' = (tasks \ {TaskOf(c)}) \cup {[TaskOf(c) EXCEPT !.progress = p]}
            /\ cmds' = [cmds EXCEPT ![c].events =
                 Append(@, progress_callback(cmds[c].model_name, p))]
            /\ UNCHANGED <<lock, artifacts, temps, downloaded>>
  /\ UNCHANGED <<manager, constructed, notLifeVars>>

\* An I/O or transport error: the task deregisters, the temporary file is
\* removed and the error is returned by the command.
StreamFail(c) ==
  /\ cmds[c].pc = "stream"
  /\ tasks' = tasks \ {TaskOf(c)}
  /\ temps' = temps \ {TaskOf(c).name}
  /\ cmds' = [cmds EXCEPT ![c] = AfterDownload(@, Err("download failed"))]
  /\ lock' = Released(c)
  /\ UNCHANGED <<manager, artifacts, constructed, downloaded, notLifeVars>>

\* The last chunk arrives: the temporary file is renamed to the artifact,
\* the task deregisters and reports 100; download_model returns Ok and the
\* command emits its completion event and returns.
StreamComplete(c) ==
  /\ cmds[c].pc = "stream"
  /\ IF TaskOf(c).cancelled
       THEN Unwind(c)
       ELSE /\ tasks' = tasks \ {TaskOf(c)}
            /\ temps' = temps \ {TaskOf(c).name}
            /\ artifacts' = artifacts \cup {TaskOf(c).name}
            /\ downloaded' = downloaded \cup {TaskOf(c).name}
            /\ cmds' = [cmds EXCEPT ![c] =
                 AfterDownload(
                   [@ EXCEPT !.events =
                      Append(@, progress_callback(cmds[c].model_name, 100))],
                   OkValue(Unit))]
            /\ lock' = Released(c)
  /\ UNCHANGED <<manager, constructed, notLifeVars>>

\* The frontend has the result; the slot is free for the next command.
ReturnCommand(c) ==
  /\ cmds[c].pc = "done"
  /\ cmds' = [d \in Commands |->
       IF d = c THEN IdleCommand ELSE [cmds[d] EXCEPT !.rivals = @ \ {c}]]
  /\ UNCHANGED <<manager, lock, tasks, artifacts, temps, constructed, downloaded,
                 notLifeVars>>

LifeTypeOK ==
  /\ manager = None \/ (Len(manager) = 1 /\ manager[1] \in 1..constructed)
  /\ lock \in 0..NumCommands
  /\ constructed \in 0..NumCommands
  /\ artifacts \subseteq LifeNames
  /\ temps \subseteq LifeNames
  /\ downloaded \subseteq LifeNames
  /\ \A t \in tasks : t.owner \in Commands /\ t.progress \in 0..100
  /\ \A c \in Commands :
       /\ cmds[c].pc \in {"idle", "check", "init", "install", "lock", "stream", "done"}
       /\ cmds[c].emitted \in BOOLEAN
       /\ cmds[c].op \in LazyOps \cup PlainOps \cup {"none"}
       /\ cmds[c].pc = "stream" <=> \E t \in tasks : t.owner = c
       /\ cmds[c].rivals \subseteq Commands \ {c}
       /\ cmds[c].overlap \in BOOLEAN

LifeNext ==
  \/ \E c \in Commands, op \in LazyOps \cup PlainOps : \E name \in NamesFor(op) :
       Invoke(c, op, name)
  \/ \E c \in Commands : CheckInit(c)
  \/ \E c \in Commands, ok \in BOOLEAN : InitManager(c, ok)
  \/ \E c \in Commands : Install(c)
  \/ \E c \in Commands : \E outcome \in OutcomesOf(cmds[c].op) : Run(c, outcome)
  \/ \E c \in Commands, p \in ChunkProgress : StreamChunk(c, p)
  \/ \E c \in Commands : StreamFail(c)
  \/ \E c \in Commands : StreamComplete(c)
  \/ \E c \in Commands : ReturnCommand(c)

LifeSpec == LifeInit /\ [][LifeNext]_vars

\* The lazily initializing commands alone, from the state without a manager.
LazyNext ==
  \/ \E c \in Commands, op \in LazyOps : \E name \in NamesFor(op) : Invoke(c, op, name)
  \/ \E c \in Commands : CheckInit(c)
  \/ \E c \in Commands, ok \in BOOLEAN : InitManager(c, ok)
  \/ \E c \in Commands : Install(c)
  \/ \E c \in Commands : \E outcome \in OutcomesOf(cmds[c].op) : Run(c, outcome)
  \/ \E c \in Commands, p \in ChunkProgress : StreamChunk(c, p)
  \/ \E c \in Commands : StreamFail(c)
  \/ \E c \in Commands : StreamComplete(c)
  \/ \E c \in Commands : ReturnCommand(c)

\* A step of slot c's command that begins with state.0.lock().await.
LockStep(c) ==
  \/ CheckInit(c)
  \/ Install(c)
  \/ \E outcome \in OutcomesOf(cmds[c].op) : Run(c, outcome)

\* The scheduling the commands run under.  tokio's Mutex hands the lock to
\* its waiters in the order they asked, so a command that waits for a lock
\* that is free again and again gets it: strong fairness for the steps that
\* begin with state.0.lock().await.  The construction of a manager and a
\* download end: weak fairness for the steps that are not kept waiting.
\* Nothing obliges the frontend to invoke a command or to take a result.
LazyFairness ==
  \A c \in Commands :
    /\ SF_vars(LockStep(c))
    /\ WF_vars(\E ok \in BOOLEAN : InitManager(c, ok))
    /\ WF_vars(StreamComplete(c))

LazyFairSpec == LifeInit /\ [][LazyNext]_vars /\ LazyFairness


-----------------------------------------------------------------------------
(* Steps of one invocation, as the properties below name them *)

\* Slot c enters get_<provider>_models in this step.
CallStep(c) == calls[c].pc = "idle" /\ calls'[c].op = "get_models"

\* The response of slot c's GET is handled in this step.
ResponseStep(c) == calls[c].pc = "await" /\ calls'[c].pc # "await"

\* Slot c updates the cache in this step.
WriteStep(c) == calls[c].pc = "write" /\ calls'[c].pc # "write"

\* Slot c runs clear_cache in this step.
ClearStep(c) == calls[c].pc = "idle" /\ calls'[c].op = "clear_cache"

\* The credentials that are absent, empty or whitespace only.
BlankCredentials == { None, Some(<< >>), Some(<<" ", "\t">>) }

MissingFieldBody(p) ==
  CASE p = "anthropic" -> anthropic_MissingField
    [] p = "groq"      -> groq_MissingField
    [] p = "openai"    -> openai_MissingField

NoChatBody(p) ==
  CASE p = "anthropic" -> anthropic_NoChat
    [] p = "groq"      -> groq_NoChat
    [] p = "openai"    -> openai_NoChat

\* A transport error, a non-2xx status, a body that is not {data: [...]}.
FailedFetches(p) ==
  { [kind |-> "error"] }
    \cup { [kind |-> "http", status |-> s, body |-> ErrorBody] : s \in ErrorStatuses }
    \cup { [kind |-> "http", status |-> 200, body |-> b] :
             b \in {ErrorBody, MissingFieldBody(p)} }

\* A well-formed 200 in which no model is a chat model.
NoChatFetches(p) ==
  { [kind |-> "http", status |-> 200, body |-> b] : b \in {EmptyData, NoChatBody(p)} }

\* The chat models of each well-formed body, in response order, written out.
ExpectedModels(body) ==
  CASE body = anthropic_OneModel ->
         << [id |-> "claude-sonnet-4-5-20250929", display_name |-> Some("Sonnet")] >>
    [] body = anthropic_Mixed ->
         << [id |-> "Claude-Instant-1", display_name |-> Some("Claude Instant")],
            [id |-> "claude-haiku-4-5-20251001", display_name |-> None] >>
    [] body = groq_OneModel ->
         << [id |-> "llama-3.3-70b-versatile", owned_by |-> None] >>
    [] body = groq_Mixed ->
         << [id |-> "llama-3.1-8b-instant", owned_by |-> Some("Meta")],
            [id |-> "Gemma2-9b-It", owned_by |-> None] >>
    [] body = openai_OneModel ->
         << [id |-> "chatgpt-4o-latest"] >>
    [] body = openai_Mixed ->
         << [id |-> "gpt-4o"], [id |-> "GPT-4-Turbo"], [id |-> "o3-mini"] >>
    [] OTHER -> << >>

\* A 200 whose body parses and holds at least one chat model.
GoodFetches(p) ==
  { r \in Responses(p) : r.kind = "http" /\ r.status = 200 /\ ExpectedModels(r.body) # << >> }

-----------------------------------------------------------------------------
(* C1: a get_models call whose credential is absent, empty or whitespace   *)
(* only returns the provider's fallback list, which is not empty, issues   *)
(* no GET and leaves the cache as it was, whatever the cache holds.        *)
C1_NoCredentialFallback ==
  [][\A c \in Callers :
       (CallStep(c) /\ calls'[c].arg \in BlankCredentials) =>
         /\ calls'[c].pc = "done"
         /\ calls'[c].result = Some(Ok(get_fallback_models(provider)))
         /\ Len(get_fallback_models(provider)) > 0
         /\ calls'[c].gets = 0
         /\ cache' = cache]_vars

\* A whitespace-only credential was answered while the cache holds a fresh entry.
C1_Witness ==
  \E c \in Callers :
    /\ calls[c].pc = "done"
    /\ calls[c].op = "get_models"
    /\ calls[c].arg = Some(<<" ", "\t">>)
    /\ calls[c].result = Some(Ok(get_fallback_models(provider)))
    /\ cache # None
    /\ now - cache[1].fetched_at < 300

(* C2: when the fetch of a credentialed call fails (transport error,       *)
(* non-2xx status, body not of the shape {data: [...]}), the call returns  *)
(* the fallback list and the cache is what it was: an absent entry stays   *)
(* absent, a stale one stays with its stamp.  A credentialed call that     *)
(* finds the cache absent or stale issues a GET.                           *)
C2_FailedFetchLeavesCache ==
  [][\A c \in Callers :
       /\ (ResponseStep(c) /\ calls'[c].resp[1] \in FailedFetches(provider)) =>
            /\ calls'[c].pc = "done"
            /\ calls'[c].result = Some(Ok(get_fallback_models(provider)))
            /\ cache' = cache
       /\ ( /\ CallStep(c)
            /\ calls'[c].arg \notin BlankCredentials
            /\ (cache = None \/ now - cache[1].fetched_at >= 300) ) =>
            /\ calls'[c].pc = "await"
            /\ calls'[c].gets = 1]_vars

\* A 200 with a body without data was answered with the fallback while a stale
\* entry stays in the cache.
C2_Witness ==
  \E c \in Callers :
    /\ calls[c].pc = "done"
    /\ calls[c].resp = Some([kind |-> "http", status |-> 200, body |-> ErrorBody])
    /\ calls[c].result = Some(Ok(get_fallback_models(provider)))
    /\ cache # None
    /\ now - cache[1].fetched_at >= 300

(* C3: whatever the credential, the cache and the answer of the endpoint,  *)
(* and however get_models and clear_cache calls interleave, get_models     *)
(* returns Ok with a list that is not empty.                               *)
C3_NeverFails ==
  \A c \in Callers :
    (calls[c].pc = "done" /\ calls[c].op = "get_models") =>
      /\ calls[c].result # None
      /\ calls[c].result[1].ok
      /\ Len(calls[c].result[1].models) > 0

\* A call whose GET failed in transport has returned while the other slot ran
\* clear_cache.
C3_Witness ==
  \E c, d \in Callers :
    /\ calls[c].pc = "done"
    /\ calls[c].resp = Some([kind |-> "error"])
    /\ calls[c].result[1].ok
    /\ calls[d].op = "clear_cache"

(* C4: a credentialed call made while the cache holds an entry less than   *)
(* 300 seconds old returns the list of that entry and issues no GET.       *)
C4_FreshEntryServed ==
  [][\A c \in Callers :
       ( /\ CallStep(c)
         /\ calls'[c].arg \notin BlankCredentials
         /\ cache # None
         /\ now - cache[1].fetched_at < 300 ) =>
         /\ calls'[c].pc = "done"
         /\ calls'[c].result = Some(Ok(cache[1].models))
         /\ calls'[c].gets = 0
         /\ cache' = cache]_vars

\* A call was served from an entry 299 seconds old.
C4_Witness ==
  \E c \in Callers :
    /\ calls[c].pc = "done"
    /\ calls[c].arg \notin BlankCredentials
    /\ calls[c].op = "get_models"
    /\ calls[c].gets = 0
    /\ cache # None
    /\ now - cache[1].fetched_at = 299
    /\ calls[c].result = Some(Ok(cache[1].models))

(* C5: an entry 300 seconds old or older is not returned: the credentialed *)
(* call that finds it issues one GET; and no invocation issues more than   *)
(* one GET.                                                                *)
C5_StaleEntryOneGet ==
  /\ [](\A c \in Callers : calls[c].gets <= 1)
  /\ [][\A c \in Callers :
          /\ ( /\ CallStep(c)
               /\ calls'[c].arg \notin BlankCredentials
               /\ cache # None
               /\ now - cache[1].fetched_at >= 300 ) =>
               /\ calls'[c].pc = "await"
               /\ calls'[c].result = None
               /\ calls'[c].gets = 1
          /\ calls[c].pc \in {"await", "write"} =>
               calls'[c].pc = "idle" \/ calls'[c].gets = 1]_vars

\* A call is waiting for its GET, issued on an entry exactly 300 seconds old.
C5_Witness ==
  \E c \in Callers :
    /\ calls[c].pc = "await"
    /\ calls[c].gets = 1
    /\ cache # None
    /\ now - cache[1].fetched_at = 300
    /\ \A d \in Callers \ {c} : calls[d].pc = "idle"

(* C6: when the fetch returns a 2xx with a body that parses and at least   *)
(* one model passes the chat filter, get_models returns the filtered list  *)
(* in response order, and the cache entry then holds that list stamped     *)
(* with the time of the write.                                             *)
C6_GoodFetchCached ==
  [][\A c \in Callers :
       /\ (ResponseStep(c) /\ calls'[c].resp[1] \in GoodFetches(provider)) =>
            /\ calls'[c].pc = "write"
            /\ calls'[c].models = ExpectedModels(calls'[c].resp[1].body)
            /\ cache' = cache
       /\ WriteStep(c) =>
            /\ calls'[c].pc = "done"
            /\ calls'[c].result = Some(Ok(ExpectedModels(calls[c].resp[1].body)))
            /\ cache' = Some([models |-> ExpectedModels(calls[c].resp[1].body),
                              fetched_at |-> now])]_vars

\* The scenario: Anthropic answers with claude-sonnet-4-5-20250929 alone.
C6_Witness ==
  \E c \in Callers :
    /\ provider = "anthropic"
    /\ calls[c].pc = "done"
    /\ calls[c].resp = Some([kind |-> "http", status |-> 200, body |-> anthropic_OneModel])
    /\ calls[c].result =
         Some(Ok(<< [id |-> "claude-sonnet-4-5-20250929", display_name |-> Some("Sonnet")] >>))
    /\ cache = Some([models |-> calls[c].result[1].models, fetched_at |-> now])

(* C7: when the body parses but no model passes the chat filter (an empty  *)
(* data array included), get_models returns the fallback list and does not *)
(* write the cache.                                                        *)
C7_NoChatModelFallback ==
  [][\A c \in Callers :
       (ResponseStep(c) /\ calls'[c].resp[1] \in NoChatFetches(provider)) =>
         /\ calls'[c].pc = "done"
         /\ calls'[c].result = Some(Ok(get_fallback_models(provider)))
         /\ cache' = cache]_vars

\* A body of non-chat models only was answered with the fallback; the cache is empty.
C7_Witness ==
  \E c \in Callers :
    /\ calls[c].pc = "done"
    /\ calls[c].resp = Some([kind |-> "http", status |-> 200, body |-> NoChatBody(provider)])
    /\ calls[c].result = Some(Ok(get_fallback_models(provider)))
    /\ cache = None

(* C8: with credentialed calls running together on an absent or stale      *)
(* cache, each issuing its own GET, the cache changes only by one call     *)
(* storing its whole filtered list with the stamp of that write, or by     *)
(* clear_cache emptying it: an entry never pairs the list of one write     *)
(* with the stamp of another, and the last write is what the cache holds.  *)
C8_WholeEntryLastWriterWins ==
  [][cache' # cache =>
       \/ \E c \in Callers :
            /\ WriteStep(c)
            /\ calls[c].gets = 1
            /\ calls[c].models = ExpectedModels(calls[c].resp[1].body)
            /\ cache' = Some([models |-> calls[c].models, fetched_at |-> now])
       \/ \E c \in Callers : ClearStep(c) /\ cache' = None]_vars

\* Two calls found the same stale entry, each fetched a list of its own, and
\* both are about to write.
C8_Witness ==
  /\ cache # None
  /\ now - cache[1].fetched_at >= 300
  /\ \A c \in Callers : calls[c].pc = "write" /\ calls[c].gets = 1
  /\ \E c, d \in Callers : calls[c].models # calls[d].models

(* C9: the fetched_at of each entry written to a cache is greater than or  *)
(* equal to the fetched_at of every entry written to it before.            *)
C9_StampsNonDecreasing ==
  [][\A c \in Callers :
       WriteStep(c) => (cache' # None /\ cache'[1].fetched_at >= maxStamp)]_vars

\* Both slots have written; the later entry is stamped after time has passed.
C9_Witness ==
  /\ \A c \in Callers : calls[c].pc = "done" /\ calls[c].models # << >>
  /\ cache # None
  /\ cache[1].fetched_at = maxStamp
  /\ maxStamp >= 299

(* C10: clear_cache removes the entry: after it the cache is empty, an     *)
(* empty cache stays empty, and a credentialed call that finds the cache   *)
(* empty issues a GET, also when the removed entry was within its TTL.     *)
C10_ClearEmptiesCache ==
  [][\A c \in Callers :
       /\ ClearStep(c) => (calls'[c].pc = "done" /\ cache' = None)
       /\ ( /\ CallStep(c)
            /\ calls'[c].arg \notin BlankCredentials
            /\ cache = None ) =>
            /\ calls'[c].pc = "await"
            /\ calls'[c].gets = 1]_vars

\* An entry still within its TTL was cleared and the next call waits for its GET.
C10_Witness ==
  \E c, d \in Callers :
    /\ calls[c].pc = "done"
    /\ calls[c].op = "clear_cache"
    /\ calls[d].pc = "await"
    /\ cache = None
    /\ maxStamp >= 0
    /\ now - maxStamp < 300

\* The download command in the record registered a task and streamed.
Started(cmd) == cmd.events # << >> /\ cmd.events[1].progress < 100

\* Initialization failed for the command in the record.
InitFailed(cmd) == cmd.result = Some(Err("Failed to initialize model manager"))

(* C11: of two download commands for the same cataloged model issued       *)
(* concurrently while the model is not downloaded, exactly one starts a    *)
(* download and the other fails with AlreadyDownloading.                   *)
C11_SecondDownloadRejected ==
  \A c, d \in Commands :
    ( /\ c \in cmds[d].rivals
      /\ cmds[c].pc = "done" /\ cmds[d].pc = "done"
      /\ Cataloged(cmds[d].model_name)
      /\ ~InitFailed(cmds[c]) /\ ~InitFailed(cmds[d]) ) =>
      \/ Started(cmds[c]) /\ cmds[d].result = Some(Err("AlreadyDownloading"))
      \/ Started(cmds[d]) /\ cmds[c].result = Some(Err("AlreadyDownloading"))

(* C12: while a download is streaming, no other lifecycle command is kept  *)
(* from the lock it needs: a command that is waiting to take the lock      *)
(* finds it free.                                                          *)
C12_NotBlockedByDownload ==
  \A c, d \in Commands :
    (cmds[d].pc = "stream" /\ cmds[c].pc \in {"check", "install", "lock"}) => lock = 0

(* C13: a cancel issued for a model while its download is streaming        *)
(* reaches the task: it returns Ok, having signalled the cancellation.     *)
C13_CancelReachesTask ==
  \A c \in Commands :
    ( /\ cmds[c].pc = "done"
      /\ cmds[c].op = "cancel_download"
      /\ cmds[c].overlap ) =>
      cmds[c].result = Some(OkValue(Unit))

(* C14: in every reachable state at most one download task exists for any  *)
(* model name.                                                             *)
C14_OneTaskPerName ==
  \A name \in LifeNames : Cardinality({ t \in tasks : t.name = name }) <= 1

\* One download streams while another command that saw no manager waits to
\* install the one it built.
C14_Witness ==
  \E c, d \in Commands :
    /\ cmds[c].pc = "stream"
    /\ cmds[d].pc = "install"
    /\ cmds[d].op = "download_model"
    /\ cmds[d].model_name = cmds[c].model_name
    /\ Cardinality({ t \in tasks : t.name = cmds[c].model_name }) = 1

(* C15: the events of a download command that ended with Ok are            *)
(* non-decreasing in progress, every progress lies in 0..100, the last is  *)
(* 100, and an event says "completed" exactly when its progress is 100.    *)
C15_ProgressEvents ==
  \A c \in Commands :
    ( /\ cmds[c].pc = "done"
      /\ cmds[c].op = "download_model"
      /\ cmds[c].result = Some(OkValue(Unit)) ) =>
      LET ev == cmds[c].events
      IN  /\ ev # << >>
          /\ \A i \in 1..Len(ev) : ev[i].progress \in 0..100
          /\ \A i, j \in 1..Len(ev) : i < j => ev[i].progress <= ev[j].progress
          /\ ev[Len(ev)].progress = 100
          /\ \A i \in 1..Len(ev) : ev[i].status = "completed" <=> ev[i].progress = 100

\* A download ended with Ok after the start, a chunk, the manager's 100 and
\* the command's completion event.
C15_Witness ==
  \E c \in Commands :
    /\ cmds[c].pc = "done"
    /\ cmds[c].op = "download_model"
    /\ cmds[c].result = Some(OkValue(Unit))
    /\ Len(cmds[c].events) = 4
    /\ cmds[c].events[2].progress = 50

(* C16: deleting a cataloged model that was never downloaded succeeds, in  *)
(* every state the delete command can be invoked in, the first command     *)
(* after process start included, and so does deleting it again.            *)
C16_DeleteNeverDownloaded ==
  \A c \in Commands :
    ( /\ cmds[c].pc = "done"
      /\ cmds[c].op = "delete_model"
      /\ Cataloged(cmds[c].model_name)
      /\ cmds[c].model_name \notin downloaded ) =>
      cmds[c].result = Some(OkValue(Unit))

\* The template with both of its placeholders filled in, the text around them kept.
Filled(template, system_prompt, user_prompt) ==
  LET sysAt == IndexOf(template, Chars("{system_prompt}"))
      userAt == IndexOf(template, Chars("{user_prompt}"))
  IN  SubSeq(template, 1, sysAt - 1) \o system_prompt
        \o SubSeq(template, sysAt + Len(Chars("{system_prompt}")), userAt - 1)
        \o user_prompt
        \o SubSeq(template, userAt + Len(Chars("{user_prompt}")), Len(template))

TemplateOf(template_name) ==
  CASE template_name = "gemma3" -> Chars(GEMMA3_TEMPLATE)
    [] template_name = "chatml" -> Chars(CHATML_TEMPLATE)
    [] template_name = "llama3" -> Chars(LLAMA3_TEMPLATE)

(* C17: for the template names gemma3, chatml and llama3 and every system  *)
(* and user prompt, format_prompt succeeds, its output contains both       *)
(* prompts verbatim and is the template with each placeholder replaced by  *)
(* its prompt; for any other template name it returns an error.            *)
C17_FormatPromptFillsTemplate ==
  fnResult.fn = "format_prompt" =>
    LET r == fnResult.value[1]
        system_prompt == Chars(fnArgs.system_prompt)
        user_prompt == Chars(fnArgs.user_prompt)
    IN  IF fnArgs.template_name \in {"gemma3", "chatml", "llama3"}
          THEN /\ r.ok
               /\ contains(r.value, system_prompt)
               /\ contains(r.value, user_prompt)
               /\ r.value = Filled(TemplateOf(fnArgs.template_name),
                                   system_prompt, user_prompt)
          ELSE ~r.ok

(* C18: get_model_by_name returns the catalog entry whose name equals the  *)
(* argument and None for any other name; the entry for "gemma3:1b" has     *)
(* context_size 2048, layer_count 26, temperature 1.0, top_k 64, top_p     *)
(* 0.95 and the single stop token <end_of_turn>.                           *)
C18_ModelByName ==
  fnResult.fn = "get_model_by_name" =>
    LET r == fnResult.value[1]
        cataloged == { get_available_models[i].name : i \in 1..Len(get_available_models) }
    IN  /\ fnArgs.name \notin cataloged => r = None
        /\ fnArgs.name \in cataloged => (r # None /\ r[1].name = fnArgs.name)
        /\ fnArgs.name = "gemma3:1b" =>
             /\ r # None
             /\ r[1].context_size = 2048
             /\ r[1].layer_count = 26
             /\ r[1].sampling.temperature = "1.0"
             /\ r[1].sampling.top_k = 64
             /\ r[1].sampling.top_p = "0.95"
             /\ r[1].sampling.stop_tokens = << "<end_of_turn>" >>

(* C19: for a cataloged name get_model_path is                             *)
(* app_data_dir/models/summary/<gguf_file>, the directory                  *)
(* get_models_directory returns joined with the artifact filename, and for *)
(* "gemma3:1b" the path contains gemma-3-1b-it-q4_0.gguf; for any other    *)
(* name it is an Unknown model error.                                      *)
C19_ModelPath ==
  fnResult.fn = "get_model_path" =>
    LET r == fnResult.value[1]
        dir == Chars(fnArgs.app_data_dir)
        model == get_model_by_name(fnArgs.name)
    IN  IF model = None
          THEN r = Err("Unknown model")
          ELSE /\ r.ok
               /\ r.value = join(get_models_directory(dir), Chars(model[1].gguf_file))
               /\ r.value = join(join(join(dir, Chars("models")), Chars("summary")),
                                 Chars(model[1].gguf_file))
               /\ fnArgs.name = "gemma3:1b" =>
                    contains(r.value, Chars("gemma-3-1b-it-q4_0.gguf"))

\* Slot c's call was answered from the cache in this step.
ServedFromCacheStep(c) ==
  /\ CallStep(c)
  /\ calls'[c].api_key # None
  /\ calls'[c].pc = "done"
  /\ calls'[c].result # None
  /\ calls'[c].result[1].ok

(* C20 as stated: a list returned from the cache to a caller presenting    *)
(* credential K was fetched with credential K; an entry written under one  *)
(* key is not served to a caller with another key.                         *)
C20_ServedUnderOwnCredential ==
  [][\A c \in Callers :
       ServedFromCacheStep(c) => fetchedWith = calls'[c].api_key]_vars

(* C20: the cache holds one entry per provider, not keyed by credential: a *)
(* credentialed call that finds an entry less than 300 seconds old returns *)
(* that entry's list whatever credential it presents, and the entry stays  *)
(* the one fetched with the credential of the call that wrote it; only     *)
(* clear_cache or expiry makes a call with another credential fetch.       *)
C20_EntrySharedAcrossCredentials ==
  /\ [](cache = None <=> fetchedWith = None)
  /\ [][\A c \in Callers :
         /\ ( /\ CallStep(c)
              /\ calls'[c].arg \in TwoApiKeys
              /\ cache # None
              /\ now - cache[1].fetched_at < 300 ) =>
              /\ ServedFromCacheStep(c)
              /\ calls'[c].result = Some(Ok(cache[1].models))
              /\ calls'[c].gets = 0
              /\ fetchedWith' = fetchedWith
         /\ WriteStep(c) => fetchedWith' = calls[c].api_key
         /\ ClearStep(c) => fetchedWith' = None]_vars

\* A call presenting one credential was handed the list fetched with the other.
C20_Witness ==
  \E c \in Callers :
    /\ calls[c].pc = "done"
    /\ calls[c].op = "get_models"
    /\ calls[c].gets = 0
    /\ calls[c].api_key # None
    /\ fetchedWith # None
    /\ fetchedWith # calls[c].api_key
    /\ cache # None
    /\ calls[c].result = Some(Ok(cache[1].models))

(* C21: once clear_cache has returned, the cache never again holds a list  *)
(* whose GET was issued before the clear: a fetch that was in flight when  *)
(* clear_cache ran does not write the cache afterwards.                    *)
C21_NoRepopulationAfterClear ==
  [][\A c \in Callers :
       (WriteStep(c) /\ calls[c].cleared) => cache' = cache]_vars

\* The result of a call that is answered with the fallback list.
FallbackResult == [p \in Providers |-> Some(Ok(get_fallback_models(p)))]

\* Slot c's call ends in this step on one of the paths that answer with the
\* fallback list: no credential, a failed fetch, no chat model in the body.
FallbackStep(c) ==
  /\ CallStep(c) \/ ResponseStep(c)
  /\ calls'[c].pc = "done"
  /\ calls'[c].result = FallbackResult[provider]

\* The model ids the provider's endpoint can list that pass the provider's
\* chat filter.
ChatModelIds ==
  [p \in Providers |->
     { id \in UNION { { b.data[i].id : i \in 1..Len(b.data) } :
                        b \in { x \in Bodies(p) : ParseOk(p, x) } } :
         is_chat_model(p, id) }]

(* C22: in every reachable state the cache is empty or holds a non-empty   *)
(* list in which every model id passes the provider's chat filter; the     *)
(* fallback list is never stored: what a call stores is the filtered list  *)
(* of a parsed 2xx response, and a call answered with the fallback leaves  *)
(* the cache as it was.                                                    *)
C22_CacheHoldsChatModels ==
  /\ [](cache # None =>
          /\ cache[1].models # << >>
          /\ \A i \in 1..Len(cache[1].models) :
               cache[1].models[i].id \in ChatModelIds[provider])
  /\ [][\A c \in Callers :
         /\ WriteStep(c) =>
              /\ calls[c].resp[1].kind = "http"
              /\ is_success(calls[c].resp[1].status)
              /\ ParseOk(provider, calls[c].resp[1].body)
              /\ cache' # None
              /\ cache'[1].models = Filtered[provider][calls[c].resp[1].body]
         /\ FallbackStep(c) => cache' = cache]_vars

\* The cache holds what the filter kept of a body that also listed models
\* that are not chat models, and another call was answered with the fallback.
C22_Witness ==
  \E c, d \in Callers :
    /\ calls[c].pc = "done"
    /\ calls[c].resp # None
    /\ calls[c].resp[1].kind = "http"
    /\ calls[c].resp[1].status = 200
    /\ ParseOk(provider, calls[c].resp[1].body)
    /\ cache # None
    /\ cache[1].models = calls[c].models
    /\ Len(cache[1].models) < Len(calls[c].resp[1].body.data)
    /\ calls[d].pc = "done"
    /\ calls[d].result = Some(Ok(get_fallback_models(provider)))

(* C23: under any interleaving of the lazily initializing commands the     *)
(* manager is installed at most once: once the state holds a manager it is *)
(* never replaced by another, so the download registry of the installed    *)
(* manager is never discarded by a later initialization.                   *)
C23_InstalledOnce ==
  /\ [](constructed <= 1)
  /\ [][manager # None => manager' = manager]_vars

\* Slot c's command takes a step.
CommandStep(c) == cmds[c].pc # "idle" /\ cmds'[c].pc # cmds[c].pc

\* Slot c's command looks the manager up under the lock in this step.
RunStep(c) == cmds[c].pc = "lock" /\ cmds'[c].pc # "lock"

\* The initialization slot c's command ran fails in this step.
InitFailStep(c) == cmds[c].pc = "init" /\ cmds'[c].pc = "done"

\* What C25 says of the commands apart from the state a failed
\* initialization leaves: cancel, delete, get-models-directory and
\* open-models-folder never run the initialization and never change the
\* state, and on a state without a manager return "Model manager not
\* initialized"; the other four go to the initialization when they see no
\* manager, and reach their operation with a manager in the state.
C25_OnDemand(c) ==
  /\ (cmds[c].op \in PlainOps /\ CommandStep(c)) =>
       /\ cmds'[c].pc \notin {"check", "init", "install"}
       /\ manager' = manager
  /\ (cmds[c].op \in PlainOps /\ RunStep(c) /\ manager = None) =>
       /\ cmds'[c].pc = "done"
       /\ cmds'[c].result = Some(Err("Model manager not initialized"))
       /\ manager' = None
  /\ (cmds[c].op \in LazyOps /\ cmds[c].pc = "check" /\ CommandStep(c)
        /\ manager = None) =>
       cmds'[c].pc = "init"
  /\ (cmds[c].op \in LazyOps /\ RunStep(c)) => manager # None
  /\ InitFailStep(c) =>
       /\ cmds[c].op \in LazyOps
       /\ cmds'[c].result = Some(Err("Failed to initialize model manager"))

DownloadErrors ==
  {"Failed to initialize model manager", "Model manager not initialized",
   "UnknownModel", "AlreadyReady", "AlreadyDownloading", "Cancelled",
   "download failed"}

(* C26: the download command emits its own final event, progress 100 and   *)
(* status "completed", exactly when download_model returned Ok: it then    *)
(* returns Ok and that event is the last one; when download_model returns  *)
(* an error or the initialization fails the command returns that error as  *)
(* a string and has emitted no event of its own.                           *)
C26_CompletionEventIffOk ==
  \A c \in Commands :
    (cmds[c].pc = "done" /\ cmds[c].op = "download_model") =>
      LET r == cmds[c].result[1]
          ev == cmds[c].events
      IN  /\ cmds[c].emitted <=> r.ok
          /\ r.ok =>
               /\ r = OkValue(Unit)
               /\ ev # << >>
               /\ ev[Len(ev)] =
                    [model |-> cmds[c].model_name, progress |-> 100,
                     status |-> "completed"]
          /\ ~r.ok =>
               /\ r.err \in DownloadErrors
               /\ \A i \in 1..Len(ev) : ev[i].progress < 100
          /\ InitFailed(cmds[c]) => ev = << >>

\* One download failed while it streamed and returned the error with the
\* events of the callback only; another ended with Ok and its own event.
C26_Witness ==
  \E c, d \in Commands :
    /\ cmds[c].pc = "done"
    /\ cmds[c].op = "download_model"
    /\ cmds[c].result = Some(Err("download failed"))
    /\ Len(cmds[c].events) = 2
    /\ ~cmds[c].emitted
    /\ cmds[d].pc = "done"
    /\ cmds[d].op = "download_model"
    /\ cmds[d].result = Some(OkValue(Unit))
    /\ cmds[d].emitted

(* C24: the lazy initialization does not deadlock on the manager mutex:    *)
(* the guard taken for the is-initialized check is released before         *)
(* init_model_manager asks for the mutex, and, manager construction and    *)
(* every manager operation ending, every list, get-info, download and      *)
(* is-ready command that has been invoked returns, however many run        *)
(* together from the state without a manager.                              *)
C24_LazyInitReturns ==
  /\ [](\A c \in Commands : cmds[c].pc \in {"init", "install"} => lock # c)
  /\ \A c \in Commands : (cmds[c].pc \notin {"idle", "done"}) ~> (cmds[c].pc = "done")

\* Every slot has seen the state without a manager and is about to ask for
\* the mutex to install the manager it built.
C24_Witness ==
  /\ manager = None
  /\ \A c \in Commands : cmds[c].pc = "install"

====
